---- MODULE Spec2Model ----
(***************************************************************************)
(* The stdio tool servers of src/mcp: the JSON-RPC dispatch loop that      *)
(* every server shares (receive_message / main / send_message), and the   *)
(* circuit breaker and remote-call logic of the Grok proxy.               *)
(***************************************************************************)
EXTENDS Integers, Sequences, FiniteSets, TLC

\* ------------------------------------------------------------------------
\* Bounds of the model
\* ------------------------------------------------------------------------

\* Number of input lines the host writes in one run of the dispatch loop.
MaxRequests == 2

\* Last instant of the wall clock the model follows, in seconds.
MaxTime == 125

\* ------------------------------------------------------------------------
\* JSON values
\* ------------------------------------------------------------------------

\* Python's None / JSON null; also what an f-string prints for a missing name.
None == "None"

\* Request ids the host uses (an absent id reads as None).
Ids == {"1", "2"}

Last(s) == s[Len(s)]

Range(s) == {s[i] : i \in 1..Len(s)}

\* ------------------------------------------------------------------------
\* The servers and their tool registries
\* ------------------------------------------------------------------------

Servers ==
    {"sleep", "process-monitor", "grok_proxy", "gpt5_proxy",
     "gpt5_proxy_with_search", "xai_proxy", "time-estimator", "ninjagrab"}

\* Per server: the "name" fields of the tools literal in handle_tools_list,
\* in order, and the names the if/elif chain of handle_tools_call routes to
\* a handler.
tools_sleep ==
    <<"sleep_until_complete", "sleep_until_command_complete", "quick_check">>

names_sleep ==
    {"sleep_until_complete", "sleep_until_command_complete", "quick_check"}

tools_process_monitor ==
    <<"monitor_process", "check_process", "find_recent_processes">>

names_process_monitor ==
    {"monitor_process", "check_process", "find_recent_processes"}

tools_grok_proxy ==
    <<"grok_health", "grok_chat">>

names_grok_proxy ==
    {"grok_health", "grok_chat"}

tools_gpt5_proxy ==
    <<"gpt5_chat">>

names_gpt5_proxy ==
    {"gpt5_chat"}

tools_gpt5_proxy_with_search ==
    <<"gpt5_chat", "gpt5_search_and_analyze">>

names_gpt5_proxy_with_search ==
    {"gpt5_chat", "gpt5_search_and_analyze"}

tools_xai_proxy ==
    <<"xai_consult">>

names_xai_proxy ==
    {"xai_consult"}

tools_time_estimator ==
    <<"estimate_completion", "quick_estimate", "compare_estimates">>

names_time_estimator ==
    {"estimate_completion", "quick_estimate", "compare_estimates"}

tools_ninjagrab ==
    <<"ninjagrab_collect">>

names_ninjagrab ==
    {"ninjagrab_collect"}

ToolList(s) ==
    CASE s = "sleep" -> tools_sleep
      [] s = "process-monitor" -> tools_process_monitor
      [] s = "grok_proxy" -> tools_grok_proxy
      [] s = "gpt5_proxy" -> tools_gpt5_proxy
      [] s = "gpt5_proxy_with_search" -> tools_gpt5_proxy_with_search
      [] s = "xai_proxy" -> tools_xai_proxy
      [] s = "time-estimator" -> tools_time_estimator
      [] s = "ninjagrab" -> tools_ninjagrab

DispatchNames(s) ==
    CASE s = "sleep" -> names_sleep
      [] s = "process-monitor" -> names_process_monitor
      [] s = "grok_proxy" -> names_grok_proxy
      [] s = "gpt5_proxy" -> names_gpt5_proxy
      [] s = "gpt5_proxy_with_search" -> names_gpt5_proxy_with_search
      [] s = "xai_proxy" -> names_xai_proxy
      [] s = "time-estimator" -> names_time_estimator
      [] s = "ninjagrab" -> names_ninjagrab

\* What evaluating handle_tools_list() gives: the dict literal, except in the
\* Grok proxy, whose literal names the undefined identifier `false`
\* ("additionalProperties": false), so that the call raises NameError.
handle_tools_list(s) ==
    IF s = "grok_proxy"
    THEN [kind |-> "raise", message |-> <<"name 'false' is not defined">>]
    ELSE [kind |-> "return", result |-> [tools |-> ToolList(s)]]

\* handle_initialize: the static identity, serverInfo.name being the server's.
handle_initialize(s) ==
    [kind |-> "return",
     result |-> [protocolVersion |-> "2024-11-05",
                 capabilities |-> "tools",
                 serverInfo |-> s]]

\* The message of the exception that leaves handle_tools_call for a name no
\* branch matches.  The Grok proxy raises inside its own try block and
\* re-raises as "<name> failed: <message>".
UnknownTool(s, name) ==
    IF s = "grok_proxy"
    THEN <<name, " failed: ", "Unknown tool: ", name>>
    ELSE <<"Unknown tool: ", name>>

\* The message of an exception raised inside a tool's handler, as it reaches
\* main.  The Grok proxy re-raises it as "<name> failed: <message>".
HandlerError(s, name) ==
    IF s = "grok_proxy"
    THEN <<name, " failed: ", "handler exception">>
    ELSE <<"handler exception">>

\* ------------------------------------------------------------------------
\* Input lines
\* ------------------------------------------------------------------------

\* kind: "malformed" is text json.loads rejects (an empty line included),
\* "null" is the JSON text null, "nonobject" an array, number, string or
\* boolean, "object" a JSON object.  nl: the line ends with a newline; a line
\* without one is the last text before end of stream.
NonObjectLines ==
    [kind : {"malformed", "null", "nonobject"}, nl : BOOLEAN,
     id : {None}, method : {None}, params : {"absent"}, name : {None}]

OtherMethodLines ==
    [kind : {"object"}, nl : BOOLEAN, id : Ids \cup {None},
     method : {"initialize", "tools/list", "bogus", None},
     params : {"absent"}, name : {None}]

ToolsCallLines(s) ==
    [kind : {"object"}, nl : BOOLEAN, id : Ids \cup {None},
     method : {"tools/call"}, params : {"absent", "nondict"}, name : {None}]
    \cup
    [kind : {"object"}, nl : BOOLEAN, id : Ids \cup {None},
     method : {"tools/call"}, params : {"dict"},
     name : Range(ToolList(s)) \cup {"nope", None}]

Lines(s) == NonObjectLines \cup OtherMethodLines \cup ToolsCallLines(s)

NoLine == [kind |-> "none", nl |-> TRUE]

NoRequest == [id |-> None, method |-> None, params |-> "dict", name |-> None]

NoOutcome == [kind |-> "none"]

\* ------------------------------------------------------------------------
\* State
\* ------------------------------------------------------------------------

VARIABLES
    server,     \* which tool server this process runs
    pc,         \* position of main: AwaitingRequest, Dispatching, InHandler, Closed
    atEOF,      \* the input stream has delivered its last text
    lastLine,   \* kind and termination of the line the last readline returned
    request,    \* main's locals request_id, method, params (name) of the current request
    outcome,    \* what the try block of the current request produced
    reads,      \* the requests main has taken up for dispatch, in order
    stdout,     \* the frames send_message has written and flushed, in order
    apiKey,     \* XAI_API_KEY is set in the environment of the process
    now,        \* the wall clock, in seconds
    circuit_breaker,  \* the process-wide CircuitBreaker instance
    gpc,        \* position inside a proxy's tool code: idle, chat, gpt5
    retry_count,      \* call_grok_api's local retry_count
    call,       \* the tool call in progress, or the last one that finished
    messages,   \* gpt5 proxies: len(str(content)) of each message of the call
    env_limit,  \* gpt5 proxies: GPT5_MAX_COMPLETION_TOKENS as calc_max_tokens read it
    max_tokens, \* call_gpt5's local max_tokens
    attempt,    \* call_gpt5's loop variable
    outbound,   \* gpt5 proxies: the last request handed to client.responses.create
    procs,      \* sleep server: the process table of the machine, by pid
    spc,        \* sleep server: position in a blocking tool: idle, loop, sleeping
    wait,       \* sleep server: arguments and locals of the blocking call
    mpc,        \* process monitor: position in monitor_process: idle, loop
    monitor,    \* process monitor: arguments and locals of monitor_process
    files,      \* output manager: the content of each file under base_dir, by path
    sessions,   \* output manager: the (timestamped_file, latest_file) pairs handed out
    writing     \* output manager: the operation between its two writes, if any

loopVars == <<server, pc, atEOF, lastLine, request, outcome, reads, stdout>>

proxyVars == <<apiKey, now, circuit_breaker, gpc, retry_count, call>>

gpt5Vars == <<messages, env_limit, max_tokens, attempt, outbound>>

\* The state of the tools modelled apart from the dispatch loop and the Grok
\* proxy.
sleepVars == <<procs, spc, wait>>

monitorVars == <<mpc, monitor>>

sessionVars == <<files, sessions, writing>>

restVars == <<gpt5Vars, sleepVars, monitorVars, sessionVars>>

vars == <<server, pc, atEOF, lastLine, request, outcome, reads, stdout,
          apiKey, now, circuit_breaker, gpc, retry_count, call,
          messages, env_limit, max_tokens, attempt, outbound,
          procs, spc, wait, mpc, monitor, files, sessions, writing>>

\* ------------------------------------------------------------------------
\* Wire codec
\* ------------------------------------------------------------------------

\* receive_message: None for end of stream and for a JSONDecodeError, the
\* parsed value otherwise (the JSON text null parses to None as well).
receive_message(line) ==
    IF line.kind \in {"malformed", "null"} THEN None
    ELSE IF line.kind = "nonobject" THEN "nonobject"
    ELSE "object"

\* The success frame built in main.
Response(id, result) ==
    [jsonrpc |-> "2.0", id |-> id, result |-> result]

\* An error frame that drops the request id.
ErrorResponse_NullId(id, message) ==
    [jsonrpc |-> "2.0", id |-> None,
     error |-> [code |-> -32603, message |-> message]]

\* An error frame with a fixed text in place of the exception's message.
ErrorResponse_GenericMessage(id, message) ==
    [jsonrpc |-> "2.0", id |-> id,
     error |-> [code |-> -32603, message |-> <<"Internal error">>]]

\* The error frame built in main's inner except clause.
ErrorResponse(id, message) ==
    [jsonrpc |-> "2.0", id |-> id,
     error |-> [code |-> -32603, message |-> message]]

\* send_message: one line on stdout, flushed before it returns.
send_message(message) == stdout' = Append(stdout, message)

\* The tail of one iteration of main: the frame for what the try block gave.
Reply(o) ==
    /\ outcome' = o
    /\ IF o.kind = "return"
       THEN send_message(Response(request.id, o.result))
       ELSE send_message(ErrorResponse(request.id, o.message))
    /\ pc' = "AwaitingRequest"

\* ------------------------------------------------------------------------
\* Dispatch loop
\* ------------------------------------------------------------------------

InitLoop ==
    /\ server \in Servers
    /\ pc = "AwaitingRequest"
    /\ atEOF = FALSE
    /\ lastLine = NoLine
    /\ request = NoRequest
    /\ outcome = NoOutcome
    /\ reads = <<>>
    /\ stdout = <<>>

\* main reads one line that the host has written.
ReceiveLine ==
    /\ pc = "AwaitingRequest"
    /\ ~atEOF
    /\ Len(reads) < MaxRequests
    /\ \E line \in Lines(server) :
        /\ lastLine' = [kind |-> line.kind, nl |-> line.nl]
        /\ atEOF' = ~line.nl
        /\ IF receive_message(line) = "object"
           THEN \* request.get("method"), .get("params", {}), .get("id")
                /\ request' = [id |-> line.id, method |-> line.method,
                               params |-> IF line.params = "absent"
                                          THEN "dict" ELSE line.params,
                               name |-> line.name]
                /\ reads' = Append(reads, [id |-> line.id, nl |-> line.nl,
                                         method |-> line.method])
                /\ outcome' = NoOutcome
                /\ pc' = "Dispatching"
           ELSE \* None: break.  A non-object: request.get raises
                \* AttributeError, the outer except clause breaks.
                /\ pc' = "Closed"
                /\ UNCHANGED <<request, reads, outcome>>
    /\ UNCHANGED <<server, stdout>>
    /\ UNCHANGED proxyVars
    /\ UNCHANGED restVars

\* End of stream answered with a parse-error frame before the loop ends.
ReceiveEOF_Emits ==
    /\ pc = "AwaitingRequest"
    /\ lastLine' = [kind |-> "eof", nl |-> FALSE]
    /\ atEOF' = TRUE
    /\ pc' = "Closed"
    /\ stdout' = Append(stdout, [jsonrpc |-> "2.0", id |-> None,
                                 error |-> [code |-> -32700,
                                            message |-> <<"Parse error">>]])
    /\ UNCHANGED <<server, request, outcome, reads>>
    /\ UNCHANGED proxyVars
    /\ UNCHANGED restVars

\* readline returns the empty string: receive_message gives None, main breaks.
ReceiveEOF ==
    /\ pc = "AwaitingRequest"
    /\ lastLine' = [kind |-> "eof", nl |-> FALSE]
    /\ atEOF' = TRUE
    /\ pc' = "Closed"
    /\ UNCHANGED <<server, request, outcome, reads, stdout>>
    /\ UNCHANGED proxyVars
    /\ UNCHANGED restVars

HandleInitialize ==
    /\ pc = "Dispatching"
    /\ request.method = "initialize"
    /\ Reply(handle_initialize(server))
    /\ UNCHANGED <<server, atEOF, lastLine, request, reads>>
    /\ UNCHANGED proxyVars
    /\ UNCHANGED restVars

HandleToolsList ==
    /\ pc = "Dispatching"
    /\ request.method = "tools/list"
    /\ Reply(handle_tools_list(server))
    /\ UNCHANGED <<server, atEOF, lastLine, request, reads>>
    /\ UNCHANGED proxyVars
    /\ UNCHANGED restVars

UnknownMethod ==
    /\ pc = "Dispatching"
    /\ request.method \notin {"initialize", "tools/list", "tools/call"}
    /\ Reply([kind |-> "raise", message |-> <<"Unknown method: ", request.method>>])
    /\ UNCHANGED <<server, atEOF, lastLine, request, reads>>
    /\ UNCHANGED proxyVars
    /\ UNCHANGED restVars

\* tools/call that starts the tool's handler and goes back to reading
\* without waiting for it.
HandleToolsCall_Background ==
    /\ pc = "Dispatching"
    /\ request.method = "tools/call"
    /\ IF request.params = "nondict"
       THEN Reply([kind |-> "raise",
                   message |-> <<"object has no attribute 'get'">>])
       ELSE IF request.name \notin DispatchNames(server)
       THEN Reply([kind |-> "raise", message |-> UnknownTool(server, request.name)])
       ELSE /\ pc' = "AwaitingRequest"
            /\ UNCHANGED <<outcome, stdout>>
    /\ UNCHANGED <<server, atEOF, lastLine, request, reads>>
    /\ UNCHANGED proxyVars
    /\ UNCHANGED restVars

\* tools/call: params.get("name"), params.get("arguments", {}), then
\* handle_tools_call, which either raises for an unknown name or enters the
\* tool's handler.
HandleToolsCall ==
    /\ pc = "Dispatching"
    /\ request.method = "tools/call"
    /\ IF request.params = "nondict"
       THEN Reply([kind |-> "raise",
                   message |-> <<"object has no attribute 'get'">>])
       ELSE IF request.name \notin DispatchNames(server)
       THEN Reply([kind |-> "raise", message |-> UnknownTool(server, request.name)])
       ELSE /\ pc' = "InHandler"
            /\ UNCHANGED <<outcome, stdout>>
    /\ UNCHANGED <<server, atEOF, lastLine, request, reads>>
    /\ UNCHANGED proxyVars
    /\ UNCHANGED restVars

\* The tool's handler returns its content; main sends the success frame.
HandlerReturn ==
    /\ pc = "InHandler"
    /\ Reply([kind |-> "return",
              result |-> [content |-> <<[type |-> "text", text |-> request.name]>>]])
    /\ UNCHANGED <<server, atEOF, lastLine, request, reads>>
    /\ UNCHANGED proxyVars
    /\ UNCHANGED restVars

\* The tool's handler raises; main's inner except clause sends the error frame.
HandlerRaise ==
    /\ pc = "InHandler"
    /\ Reply([kind |-> "raise", message |-> HandlerError(server, request.name)])
    /\ UNCHANGED <<server, atEOF, lastLine, request, reads>>
    /\ UNCHANGED proxyVars
    /\ UNCHANGED restVars

\* ------------------------------------------------------------------------
\* Grok proxy: circuit breaker
\* ------------------------------------------------------------------------

\* Defaults of CircuitBreaker.__init__ and call_grok_api's max_retries.
failure_threshold == 3

timeout == 60

\* A retry loop that allows one attempt more.
max_retries_OneMore == 3 + 1

max_retries == 3

\* last_failure_time before any failure was recorded (None in the code).
NoTime == -1

\* CircuitBreaker(): the instance the module creates at import.
CircuitBreaker ==
    [failure_count |-> 0, last_failure_time |-> NoTime, state |-> "closed"]

\* can_execute at time t: the answer, and the breaker after the call.
can_execute(cb, t) ==
    IF cb.state = "closed" THEN [ok |-> TRUE, cb |-> cb]
    ELSE IF cb.state = "open"
    THEN IF t - cb.last_failure_time > timeout
         THEN [ok |-> TRUE, cb |-> [cb EXCEPT !.state = "half-open"]]
         ELSE [ok |-> FALSE, cb |-> cb]
    ELSE [ok |-> TRUE, cb |-> cb]

\* record_success that closes the breaker and keeps the count.
record_success_KeepCount(cb) ==
    [cb EXCEPT !.state = "closed"]

record_success(cb) ==
    [cb EXCEPT !.failure_count = 0, !.state = "closed"]

\* record_failure that opens only above the threshold.
record_failure_StrictThreshold(cb, t) ==
    [cb EXCEPT !.failure_count = cb.failure_count + 1,
               !.last_failure_time = t,
               !.state = IF cb.failure_count + 1 > failure_threshold
                         THEN "open" ELSE cb.state]

\* record_failure that keeps the old failure time when a trial fails.
record_failure_KeepTimer(cb, t) ==
    [cb EXCEPT !.failure_count = cb.failure_count + 1,
               !.last_failure_time = IF cb.state = "half-open"
                                     THEN cb.last_failure_time ELSE t,
               !.state = IF cb.failure_count + 1 >= failure_threshold
                         THEN "open" ELSE cb.state]

record_failure(cb, t) ==
    [cb EXCEPT !.failure_count = cb.failure_count + 1,
               !.last_failure_time = t,
               !.state = IF cb.failure_count + 1 >= failure_threshold
                         THEN "open" ELSE cb.state]

\* ------------------------------------------------------------------------
\* Grok proxy: the tools grok_chat and grok_health
\* ------------------------------------------------------------------------

\* What one POST to the chat endpoint can come to: status 200 with a usable
\* body, 200 with a body that is not JSON, 200 with JSON of another shape,
\* another status below 500, a status of 500 or more, asyncio.TimeoutError,
\* aiohttp.ClientError, any other exception.
ChatReplies ==
    {"ok", "badjson", "badbody", "4xx", "5xx", "timeout", "clienterror", "exception"}

HealthReplies == {"200", "non200", "timeout", "exception"}

\* The failures of a request that another try may cure: a server error, a
\* timeout, a transport error.
TransientReplies == {"5xx", "timeout", "clienterror"}

\* The call record after one more request that came to r.
Attempted(c, r) ==
    [c EXCEPT !.reply = r, !.transient = c.transient /\ r \in TransientReplies]

\* How long the host stays quiet between two tool calls.
TickSteps == {30, 31}

\* The record of a tool call as it starts: the clock and the breaker it
\* found, no request made yet.  posts counts the requests the call made to
\* the remote API, reply is what the last of them came to, transient says
\* that each of them failed in a transient way.
StartCall(tool) ==
    [tool |-> tool, startedAt |-> now, cbAtStart |-> circuit_breaker,
     posts |-> 0, reply |-> "none", transient |-> TRUE, result |-> "none",
     done |-> FALSE, finishedAt |-> now, streak |-> call.streak]

\* The call record once the tool has returned or raised.  streak counts the
\* consecutive finished calls that recorded a failure.
Finish(c, posts, result, recorded) ==
    [c EXCEPT !.posts = posts, !.result = result, !.done = TRUE,
              !.finishedAt = now,
              !.streak = CASE recorded = "failure" ->
                                IF c.streak < failure_threshold
                                THEN c.streak + 1 ELSE c.streak
                           [] recorded = "success" -> 0
                           [] OTHER -> c.streak]

InitProxy ==
    /\ apiKey \in BOOLEAN
    /\ now = 0
    /\ circuit_breaker = CircuitBreaker
    /\ gpc = "idle"
    /\ retry_count = 0
    /\ call = [tool |-> "none", startedAt |-> 0, cbAtStart |-> CircuitBreaker,
               posts |-> 0, reply |-> "none", transient |-> TRUE,
               result |-> "none", done |-> TRUE, finishedAt |-> 0, streak |-> 0]

\* handle_tools_call("grok_chat", arguments) up to the retry loop of
\* call_grok_api: the messages check, the breaker gate, the API key.
GrokChatStart ==
    /\ gpc = "idle"
    /\ \E msgs \in {"empty", "nonempty"} :
        LET g == can_execute(circuit_breaker, now)
            c == StartCall("grok_chat")
        IN  IF msgs = "empty"
            THEN /\ call' = Finish(c, 0, "raise_messages_required", "nothing")
                 /\ UNCHANGED <<circuit_breaker, gpc>>
            ELSE IF ~g.ok
            THEN /\ call' = Finish(c, 0, "unavailable", "nothing")
                 /\ circuit_breaker' = g.cb
                 /\ UNCHANGED gpc
            ELSE IF ~apiKey
            THEN /\ call' = Finish(c, 0, "raise_api_key_required", "nothing")
                 /\ circuit_breaker' = g.cb
                 /\ UNCHANGED gpc
            ELSE /\ call' = c
                 /\ circuit_breaker' = g.cb
                 /\ gpc' = "chat"
    /\ retry_count' = 0
    /\ UNCHANGED <<apiKey, now>>
    /\ UNCHANGED loopVars
    /\ UNCHANGED restVars

\* The backoff of call_grok_api kept at two seconds.
backoff_Fixed(count) == 2

\* await asyncio.sleep(2 ** retry_count), retry_count already incremented.
backoff(count) == 2 ^ count

\* call_grok_api recording a failure at every failed attempt.
GrokChatAttempt_RecordEachAttempt ==
    /\ gpc = "chat"
    /\ \E r \in ChatReplies :
        LET posts == call.posts + 1
            c == Attempted(call, r)
            failed == record_failure(circuit_breaker, now)
        IN  CASE r = "ok" ->
                    /\ circuit_breaker' = record_success(circuit_breaker)
                    /\ call' = Finish(c, posts, "ok", "success")
                    /\ gpc' = "idle"
                    /\ retry_count' = 0
                    /\ UNCHANGED now
              [] r = "4xx" ->
                    /\ circuit_breaker' = failed
                    /\ call' = Finish(c, posts, "api_error", "failure")
                    /\ gpc' = "idle"
                    /\ retry_count' = 0
                    /\ UNCHANGED now
              [] r \in {"5xx", "timeout", "clienterror"} ->
                    IF retry_count + 1 < max_retries
                    THEN \* asyncio.sleep(2 ** retry_count); continue
                         /\ now + backoff(retry_count + 1) <= MaxTime
                         /\ retry_count' = retry_count + 1
                         /\ now' = now + backoff(retry_count + 1)
                         /\ call' = [c EXCEPT !.posts = posts]
                         /\ circuit_breaker' = failed
                         /\ UNCHANGED gpc
                    ELSE /\ circuit_breaker' = failed
                         /\ call' = Finish(c, posts,
                                           CASE r = "5xx" -> "api_error"
                                             [] r = "timeout" -> "timeout_error"
                                             [] OTHER -> "client_error",
                                           "failure")
                         /\ gpc' = "idle"
                         /\ retry_count' = 0
                         /\ UNCHANGED now
              [] r = "badjson" ->
                    /\ circuit_breaker' = failed
                    /\ call' = Finish(c, posts, "parse_error", "failure")
                    /\ gpc' = "idle"
                    /\ retry_count' = 0
                    /\ UNCHANGED now
              [] OTHER ->
                    /\ circuit_breaker' = failed
                    /\ call' = Finish(c, posts, "exception_error", "failure")
                    /\ gpc' = "idle"
                    /\ retry_count' = 0
                    /\ UNCHANGED now
    /\ UNCHANGED apiKey
    /\ UNCHANGED loopVars
    /\ UNCHANGED restVars

\* One pass of the while loop of call_grok_api: a POST and what follows it.
\* The clock moves with the backoff sleeps; the POST itself takes no time.
GrokChatAttempt ==
    /\ gpc = "chat"
    /\ \E r \in ChatReplies :
        LET posts == call.posts + 1
            c == Attempted(call, r)
            failed == record_failure(circuit_breaker, now)
        IN  CASE r = "ok" ->
                    /\ circuit_breaker' = record_success(circuit_breaker)
                    /\ call' = Finish(c, posts, "ok", "success")
                    /\ gpc' = "idle"
                    /\ retry_count' = 0
                    /\ UNCHANGED now
              [] r = "4xx" ->
                    /\ circuit_breaker' = failed
                    /\ call' = Finish(c, posts, "api_error", "failure")
                    /\ gpc' = "idle"
                    /\ retry_count' = 0
                    /\ UNCHANGED now
              [] r \in {"5xx", "timeout", "clienterror"} ->
                    IF retry_count + 1 < max_retries
                    THEN \* asyncio.sleep(2 ** retry_count); continue
                         /\ now + backoff(retry_count + 1) <= MaxTime
                         /\ retry_count' = retry_count + 1
                         /\ now' = now + backoff(retry_count + 1)
                         /\ call' = [c EXCEPT !.posts = posts]
                         /\ UNCHANGED <<circuit_breaker, gpc>>
                    ELSE /\ circuit_breaker' = failed
                         /\ call' = Finish(c, posts,
                                           CASE r = "5xx" -> "api_error"
                                             [] r = "timeout" -> "timeout_error"
                                             [] OTHER -> "client_error",
                                           "failure")
                         /\ gpc' = "idle"
                         /\ retry_count' = 0
                         /\ UNCHANGED now
              [] r = "badjson" ->
                    /\ circuit_breaker' = failed
                    /\ call' = Finish(c, posts, "parse_error", "failure")
                    /\ gpc' = "idle"
                    /\ retry_count' = 0
                    /\ UNCHANGED now
              [] OTHER ->
                    /\ circuit_breaker' = failed
                    /\ call' = Finish(c, posts, "exception_error", "failure")
                    /\ gpc' = "idle"
                    /\ retry_count' = 0
                    /\ UNCHANGED now
    /\ UNCHANGED apiKey
    /\ UNCHANGED loopVars
    /\ UNCHANGED restVars

\* check_api_health without the can_execute gate.
GrokHealth_NoGate ==
    /\ gpc = "idle"
    /\ LET c == StartCall("grok_health")
       IN  IF ~apiKey
           THEN /\ call' = Finish(c, 0, "raise_api_key_required", "nothing")
                /\ UNCHANGED circuit_breaker
           ELSE \E r \in HealthReplies :
                    IF r = "200"
                    THEN /\ circuit_breaker' = record_success(circuit_breaker)
                         /\ call' = Finish(c, 1, "healthy", "success")
                    ELSE /\ circuit_breaker' = record_failure(circuit_breaker, now)
                         /\ call' = Finish(c, 1, "unhealthy", "failure")
    /\ UNCHANGED <<apiKey, now, gpc, retry_count>>
    /\ UNCHANGED loopVars
    /\ UNCHANGED restVars

\* check_api_health recording on a breaker of its own, not the shared one.
GrokHealth_OwnBreaker ==
    /\ gpc = "idle"
    /\ LET g == can_execute(circuit_breaker, now)
           c == StartCall("grok_health")
       IN  IF ~apiKey
           THEN /\ call' = Finish(c, 0, "raise_api_key_required", "nothing")
                /\ UNCHANGED circuit_breaker
           ELSE IF ~g.ok
           THEN /\ call' = Finish(c, 0, "circuit_open", "nothing")
                /\ circuit_breaker' = g.cb
           ELSE \E r \in HealthReplies :
                    IF r = "200"
                    THEN /\ circuit_breaker' = g.cb
                         /\ call' = Finish(c, 1, "healthy", "success")
                    ELSE /\ circuit_breaker' = g.cb
                         /\ call' = Finish(c, 1, "unhealthy", "failure")
    /\ UNCHANGED <<apiKey, now, gpc, retry_count>>
    /\ UNCHANGED loopVars
    /\ UNCHANGED restVars

\* handle_tools_call("grok_health", ...): check_api_health as a whole.
GrokHealth ==
    /\ gpc = "idle"
    /\ LET g == can_execute(circuit_breaker, now)
           c == StartCall("grok_health")
       IN  IF ~apiKey
           THEN /\ call' = Finish(c, 0, "raise_api_key_required", "nothing")
                /\ UNCHANGED circuit_breaker
           ELSE IF ~g.ok
           THEN /\ call' = Finish(c, 0, "circuit_open", "nothing")
                /\ circuit_breaker' = g.cb
           ELSE \E r \in HealthReplies :
                    IF r = "200"
                    THEN /\ circuit_breaker' = record_success(g.cb)
                         /\ call' = Finish(c, 1, "healthy", "success")
                    ELSE /\ circuit_breaker' = record_failure(g.cb, now)
                         /\ call' = Finish(c, 1, "unhealthy", "failure")
    /\ UNCHANGED <<apiKey, now, gpc, retry_count>>
    /\ UNCHANGED loopVars
    /\ UNCHANGED restVars

\* The requests of the Grok proxy that call neither tool: initialize,
\* tools/list (whose handler raises NameError on the name false), and a
\* method or a tool name the server does not know.
OtherRequests ==
    [initialize |-> "initialized",
     tools_list |-> "raise_name_error",
     unknown_method |-> "raise_unknown_method",
     unknown_tool |-> "raise_unknown_tool"]

\* main: method == "initialize"
GrokInitialize ==
    /\ gpc = "idle"
    /\ call' = Finish(StartCall("initialize"), 0, OtherRequests.initialize, "nothing")
    /\ UNCHANGED <<apiKey, now, circuit_breaker, gpc, retry_count>>
    /\ UNCHANGED loopVars
    /\ UNCHANGED restVars

\* main: method == "tools/list"
GrokToolsList ==
    /\ gpc = "idle"
    /\ call' = Finish(StartCall("tools_list"), 0, OtherRequests.tools_list, "nothing")
    /\ UNCHANGED <<apiKey, now, circuit_breaker, gpc, retry_count>>
    /\ UNCHANGED loopVars
    /\ UNCHANGED restVars

\* main: any other method
GrokUnknownMethod ==
    /\ gpc = "idle"
    /\ call' = Finish(StartCall("unknown_method"), 0, OtherRequests.unknown_method, "nothing")
    /\ UNCHANGED <<apiKey, now, circuit_breaker, gpc, retry_count>>
    /\ UNCHANGED loopVars
    /\ UNCHANGED restVars

\* handle_tools_call: a name that is neither tool
GrokUnknownTool ==
    /\ gpc = "idle"
    /\ call' = Finish(StartCall("unknown_tool"), 0, OtherRequests.unknown_tool, "nothing")
    /\ UNCHANGED <<apiKey, now, circuit_breaker, gpc, retry_count>>
    /\ UNCHANGED loopVars
    /\ UNCHANGED restVars

\* Time passes while the server waits for the next request.
Tick ==
    /\ gpc = "idle"
    /\ \E d \in TickSteps :
        /\ now + d <= MaxTime
        /\ now' = now + d
    /\ UNCHANGED <<apiKey, circuit_breaker, gpc, retry_count, call>>
    /\ UNCHANGED loopVars
    /\ UNCHANGED restVars

\* ------------------------------------------------------------------------
\* GPT-5 proxies and X.AI proxy: the tools gpt5_chat,
\* gpt5_search_and_analyze and xai_consult
\* ------------------------------------------------------------------------

\* Largest number of messages in one call.
MaxMessages == 2

\* len(str(msg.get('content', ''))) of one message.
ContentLengths == {0, 7, 255670, 255674, 256000}

MessageLists ==
    UNION {[1..n -> ContentLengths] : n \in 0..MaxMessages}

\* Values of GPT5_MAX_COMPLETION_TOKENS (4096 is the default).
EnvLimits == {1, 64, 4096, 200000}

context_limit == 128000

RECURSIVE SumLengths(_)
SumLengths(msgs) ==
    IF msgs = <<>> THEN 0
    ELSE msgs[1] + SumLengths(SubSeq(msgs, 2, Len(msgs)))

Min(a, b) == IF a <= b THEN a ELSE b

Max(a, b) == IF a >= b THEN a ELSE b

\* estimate_prompt_tokens: total_chars // 4.
estimate_prompt_tokens(msgs) == SumLengths(msgs) \div 4

\* calc_max_tokens, env being int(os.environ.get(...)).
calc_max_tokens(msgs, env) ==
    LET prompt_tokens == estimate_prompt_tokens(msgs)
        available_room == Max(context_limit - prompt_tokens - 100, 64)
    IN  Min(env, available_room)

\* What one client.responses.create can come to: a response, an exception
\* whose text holds "Unsupported model" or "model_not_found", one whose text
\* holds "invalid_request_error", a timeout, a server error, any other
\* exception.
Gpt5Replies ==
    {"ok", "model_not_found", "invalid_request_error", "timeout", "5xx",
     "exception"}

\* The exceptions call_gpt5 of this server takes for "model not available".
ModelUnavailable(s, r) ==
    \/ r = "model_not_found"
    \/ s = "gpt5_proxy" /\ r = "invalid_request_error"

Gpt5Servers == {"gpt5_proxy", "gpt5_proxy_with_search"}

\* No request made yet.
NoOutbound == [keywords |-> {}, cap |-> {}]

\* The keywords a request can carry a completion-token cap in.
CapKeywords == {"max_output_tokens", "max_tokens", "max_completion_tokens"}

\* client.responses.create(model=..., input=..., reasoning=..., text=...):
\* the keyword arguments of the request and the cap among them, if any.
responses_create ==
    [keywords |-> {"model", "input", "reasoning", "text"},
     cap |-> {}]

InitGpt5 ==
    /\ messages = <<>>
    /\ env_limit = 4096
    /\ max_tokens = 0
    /\ attempt = 0
    /\ outbound = NoOutbound

\* handle_tools_call of a GPT-5 proxy up to the loop of call_gpt5: the
\* arguments check, the API key, calc_max_tokens.  For
\* gpt5_search_and_analyze the prompt is one string, and the empty list
\* stands for a missing query or task.
Gpt5Start ==
    /\ gpc = "idle"
    /\ server \in Gpt5Servers
    /\ \E tool \in DispatchNames(server), msgs \in MessageLists, env \in EnvLimits :
        LET c == StartCall(tool)
        IN  /\ tool = "gpt5_search_and_analyze" => Len(msgs) <= 1
            /\ messages' = msgs
            /\ env_limit' = env
            /\ IF msgs = <<>>
               THEN /\ call' = Finish(c, 0, "raise_messages_required", "nothing")
                    /\ UNCHANGED <<gpc, max_tokens>>
               ELSE IF ~apiKey
               THEN /\ call' = Finish(c, 0, "raise_api_key_required", "nothing")
                    /\ UNCHANGED <<gpc, max_tokens>>
               ELSE /\ call' = c
                    /\ max_tokens' = calc_max_tokens(msgs, env)
                    /\ gpc' = "gpt5"
    /\ attempt' = 0
    /\ outbound' = NoOutbound
    /\ UNCHANGED <<apiKey, now, circuit_breaker, retry_count>>
    /\ UNCHANGED <<sleepVars, monitorVars, sessionVars>>
    /\ UNCHANGED loopVars

\* One pass of "for attempt in range(2)" of call_gpt5: a request and what
\* follows it.  In gpt5_proxy the ValueError raised for an unavailable model
\* is raised inside the outer try, whose except clause retries once on any
\* exception; in gpt5_proxy_with_search it is raised in the except clause
\* itself and leaves the function.
Gpt5Attempt ==
    /\ gpc = "gpt5"
    /\ \E r \in Gpt5Replies :
        LET posts == call.posts + 1
            c == Attempted(call, r)
            again == /\ attempt' = 1
                     /\ call' = [c EXCEPT !.posts = posts]
                     /\ UNCHANGED gpc
            leave(result) == /\ call' = Finish(c, posts, result, "nothing")
                             /\ gpc' = "idle"
                             /\ UNCHANGED attempt
        IN  CASE r = "ok" -> leave("ok")
              [] ModelUnavailable(server, r) ->
                    IF server = "gpt5_proxy" /\ attempt = 0
                    THEN again
                    ELSE leave("raise_model_unavailable")
              [] OTHER ->
                    IF attempt = 0 THEN again ELSE leave("raise_failed")
    /\ outbound' = responses_create
    /\ UNCHANGED <<apiKey, now, circuit_breaker, retry_count>>
    /\ UNCHANGED <<messages, env_limit, max_tokens>>
    /\ UNCHANGED <<sleepVars, monitorVars, sessionVars>>
    /\ UNCHANGED loopVars

\* handle_tools_call("xai_consult", ...): call_xai_api as a whole, one POST
\* and no retry; every failure of the POST comes back as text.
XaiConsult ==
    /\ gpc = "idle"
    /\ server = "xai_proxy"
    /\ \E msgs \in MessageLists :
        LET c == StartCall("xai_consult")
        IN  /\ messages' = msgs
            /\ IF msgs = <<>>
               THEN call' = Finish(c, 0, "raise_messages_required", "nothing")
               ELSE IF ~apiKey
               THEN call' = Finish(c, 0, "raise_api_key_required", "nothing")
               ELSE \E r \in ChatReplies :
                    call' = Finish(Attempted(c, r), 1,
                                   CASE r = "ok" -> "ok"
                                     [] r \in {"4xx", "5xx"} -> "api_error"
                                     [] r = "timeout" -> "timeout_error"
                                     [] OTHER -> "exception_error",
                                   "nothing")
    /\ UNCHANGED <<apiKey, now, circuit_breaker, gpc, retry_count>>
    /\ UNCHANGED <<env_limit, max_tokens, attempt, outbound>>
    /\ UNCHANGED <<sleepVars, monitorVars, sessionVars>>
    /\ UNCHANGED loopVars

\* ------------------------------------------------------------------------
\* Sleep server: the process table and the blocking tools
\* ------------------------------------------------------------------------

\* Last instant of the wall clock at which a blocking call may still run.
MaxSleepClock == 6

\* The pids of the machine; the server's own process is one of them.
Pids == 1..4

SelfPid == 1

Timeouts == {0, 2, 3}

PollIntervals == {1, 2}

\* A command line or a pattern, character by character.
cmd_server ==
    <<"p", "y", "t", "h", "o", "n", "3", " ", "s", "l", "e", "e", "p", "_",
      "m", "c", "p", "_", "s", "e", "r", "v", "e", "r", ".", "p", "y">>

cmd_sleep == <<"s", "l", "e", "e", "p", " ", "3", "0">>

cmd_SLEEP == <<"S", "L", "E", "E", "P", " ", "3", "0">>

cmd_unknown == <<"u", "n", "k", "n", "o", "w", "n">>

\* /proc/<pid>/cmdline of each pid while its process runs.
cmdline(pid) ==
    CASE pid = SelfPid -> cmd_server
      [] pid = 2 -> cmd_sleep
      [] pid = 3 -> cmd_SLEEP
      [] OTHER -> cmd_sleep

\* The values of the command_pattern argument: "sleep 30", "Sleep", "vim"
\* and the empty string.
Patterns ==
    {cmd_sleep, <<"S", "l", "e", "e", "p">>, <<"v", "i", "m">>, <<>>}

\* str.lower() on the characters in use.
lower(ch) ==
    CASE ch = "S" -> "s"
      [] ch = "L" -> "l"
      [] ch = "E" -> "e"
      [] ch = "P" -> "p"
      [] OTHER -> ch

Lowered(str) == [i \in 1..Len(str) |-> lower(str[i])]

\* a in b, for strings.
IsIn(a, b) ==
    \E i \in 0..(Len(b) - Len(a)) : SubSeq(b, i + 1, i + Len(a)) = a

\* process_exists: os.kill(pid, 0) succeeds for every entry of the process
\* table, a running process as well as one that has exited and was not yet
\* reaped by its parent.
process_exists(pid) == procs[pid] \in {"running", "zombie"}

\* get_process_command: the command line, "unknown" where it is empty (as
\* it is for a zombie) or cannot be read.
get_process_command(pid) ==
    IF procs[pid] = "running" THEN cmdline(pid) ELSE cmd_unknown

\* find_processes_by_command: the pids listed in /proc whose command line
\* holds the pattern, both lowered.
find_processes_by_command(command_pattern) ==
    {pid \in Pids :
        /\ process_exists(pid)
        /\ IsIn(Lowered(command_pattern), Lowered(get_process_command(pid)))}

NoWait ==
    [tool |-> "none", pid |-> 0, command_pattern |-> <<>>, timeout |-> 0,
     poll_interval |-> 1, start_time |-> 0, initial_pids |-> {},
     still_running |-> {}, elapsed |-> 0, status |-> "none", done |-> TRUE,
     probes |-> 0, scans |-> 0, sleeps |-> 0, wake_at |-> 0,
     exited_at |-> NoTime]

InitSleep ==
    /\ procs = [pid \in Pids |-> IF pid = SelfPid THEN "running" ELSE "unborn"]
    /\ spc = "idle"
    /\ wait = NoWait

\* A process is started; it gets a pid that was not in use before.
ProcStart ==
    /\ \E pid \in Pids \ {SelfPid} :
        /\ procs[pid] = "unborn"
        /\ procs' = [procs EXCEPT ![pid] = "running"]
    /\ UNCHANGED <<spc, wait>>
    /\ UNCHANGED <<loopVars, proxyVars, gpt5Vars, monitorVars, sessionVars>>

\* The blocking call has made its probes of this instant and gone to sleep.
JustProbed == spc = "sleeping" /\ now = wait.wake_at - wait.poll_interval

\* A process exits: it stays in the process table as a zombie until its
\* parent reaps it, or leaves the table at once.  exited_at notes the exit
\* of the pid that a sleep_until_complete call in progress waits for.  The
\* clock counts whole seconds: an exit that falls between a probe and the
\* next second is an exit of that next second.
ProcExit ==
    /\ ~JustProbed
    /\ \E pid \in Pids \ {SelfPid}, after \in {"zombie", "gone"} :
        /\ procs[pid] = "running"
        /\ procs' = [procs EXCEPT ![pid] = after]
        /\ wait' = IF ~wait.done /\ wait.tool = "sleep_until_complete"
                      /\ wait.pid = pid
                   THEN [wait EXCEPT !.exited_at = now]
                   ELSE wait
    /\ UNCHANGED spc
    /\ UNCHANGED <<loopVars, proxyVars, gpt5Vars, monitorVars, sessionVars>>

\* The parent of an exited process waits for it.
ProcReap ==
    /\ \E pid \in Pids \ {SelfPid} :
        /\ procs[pid] = "zombie"
        /\ procs' = [procs EXCEPT ![pid] = "gone"]
    /\ UNCHANGED <<spc, wait>>
    /\ UNCHANGED <<loopVars, proxyVars, gpt5Vars, monitorVars, sessionVars>>

\* The end of a blocking call, by return or by raise.
Returned(w, status) == [w EXCEPT !.status = status, !.done = TRUE]

\* sleep_until_complete without the probe before the loop.
SleepUntilCompleteStart_NoEarlyReturn ==
    /\ spc = "idle"
    /\ \E pid \in Pids \cup {0}, t \in Timeouts, p \in PollIntervals :
        LET w == [NoWait EXCEPT !.tool = "sleep_until_complete", !.pid = pid,
                                !.timeout = t, !.poll_interval = p,
                                !.start_time = now, !.done = FALSE]
        IN  /\ now + t + p <= MaxSleepClock
            /\ IF pid <= 0
               THEN /\ wait' = Returned(w, "raise_invalid_pid")
                    /\ UNCHANGED spc
               ELSE /\ wait' = w
                    /\ spc' = "loop"
    /\ UNCHANGED <<procs, now>>
    /\ UNCHANGED <<apiKey, circuit_breaker, gpc, retry_count, call>>
    /\ UNCHANGED <<loopVars, gpt5Vars, monitorVars, sessionVars>>

\* sleep_until_complete up to its loop: the pid check, start_time, the
\* probe before the loop.
SleepUntilCompleteStart ==
    /\ spc = "idle"
    /\ \E pid \in Pids \cup {0}, t \in Timeouts, p \in PollIntervals :
        LET w == [NoWait EXCEPT !.tool = "sleep_until_complete", !.pid = pid,
                                !.timeout = t, !.poll_interval = p,
                                !.start_time = now, !.done = FALSE]
        IN  /\ now + t + p <= MaxSleepClock
            /\ IF pid <= 0
               THEN /\ wait' = Returned(w, "raise_invalid_pid")
                    /\ UNCHANGED spc
               ELSE IF ~process_exists(pid)
               THEN /\ wait' = Returned([w EXCEPT !.probes = 1], "not_found")
                    /\ UNCHANGED spc
               ELSE /\ wait' = [w EXCEPT !.probes = 1]
                    /\ spc' = "loop"
    /\ UNCHANGED <<procs, now>>
    /\ UNCHANGED <<apiKey, circuit_breaker, gpc, retry_count, call>>
    /\ UNCHANGED <<loopVars, gpt5Vars, monitorVars, sessionVars>>

\* The loop test with > in place of >=.
SleepUntilCompletePoll_StrictTimeout ==
    /\ spc = "loop"
    /\ wait.tool = "sleep_until_complete"
    /\ LET elapsed == now - wait.start_time
           w == [wait EXCEPT !.elapsed = elapsed, !.probes = wait.probes + 1]
       IN  IF ~process_exists(wait.pid)
           THEN /\ wait' = Returned(w, "completed")
                /\ spc' = "idle"
           ELSE IF elapsed > wait.timeout
           THEN /\ wait' = Returned(w, "timeout")
                /\ spc' = "idle"
           ELSE /\ wait' = [w EXCEPT !.sleeps = wait.sleeps + 1,
                                     !.wake_at = now + wait.poll_interval]
                /\ spc' = "sleeping"
    /\ UNCHANGED <<procs, now>>
    /\ UNCHANGED <<apiKey, circuit_breaker, gpc, retry_count, call>>
    /\ UNCHANGED <<loopVars, gpt5Vars, monitorVars, sessionVars>>

\* One pass of the loop of sleep_until_complete, up to the call of
\* time.sleep: elapsed, the probe, the timeout test.
SleepUntilCompletePoll ==
    /\ spc = "loop"
    /\ wait.tool = "sleep_until_complete"
    /\ LET elapsed == now - wait.start_time
           w == [wait EXCEPT !.elapsed = elapsed, !.probes = wait.probes + 1]
       IN  IF ~process_exists(wait.pid)
           THEN /\ wait' = Returned(w, "completed")
                /\ spc' = "idle"
           ELSE IF elapsed >= wait.timeout
           THEN /\ wait' = Returned(w, "timeout")
                /\ spc' = "idle"
           ELSE /\ wait' = [w EXCEPT !.sleeps = wait.sleeps + 1,
                                     !.wake_at = now + wait.poll_interval]
                /\ spc' = "sleeping"
    /\ UNCHANGED <<procs, now>>
    /\ UNCHANGED <<apiKey, circuit_breaker, gpc, retry_count, call>>
    /\ UNCHANGED <<loopVars, gpt5Vars, monitorVars, sessionVars>>

\* sleep_until_command_complete up to its loop: the pattern check,
\* start_time, the one scan of /proc.
SleepUntilCommandCompleteStart ==
    /\ spc = "idle"
    /\ \E command_pattern \in Patterns, t \in Timeouts, p \in PollIntervals :
        LET w == [NoWait EXCEPT !.tool = "sleep_until_command_complete",
                                !.command_pattern = command_pattern,
                                !.timeout = t, !.poll_interval = p,
                                !.start_time = now, !.done = FALSE]
            initial_pids == find_processes_by_command(command_pattern)
        IN  /\ now + t + p <= MaxSleepClock
            /\ IF command_pattern = <<>>
               THEN /\ wait' = Returned(w, "raise_pattern_required")
                    /\ UNCHANGED spc
               ELSE IF initial_pids = {}
               THEN /\ wait' = Returned([w EXCEPT !.scans = 1], "not_found")
                    /\ UNCHANGED spc
               ELSE /\ wait' = [w EXCEPT !.scans = 1,
                                         !.initial_pids = initial_pids,
                                         !.still_running = initial_pids]
                    /\ spc' = "loop"
    /\ UNCHANGED <<procs, now>>
    /\ UNCHANGED <<apiKey, circuit_breaker, gpc, retry_count, call>>
    /\ UNCHANGED <<loopVars, gpt5Vars, monitorVars, sessionVars>>

\* A loop that looks the pattern up again on every pass.
SleepUntilCommandCompletePoll_Rescan ==
    /\ spc = "loop"
    /\ wait.tool = "sleep_until_command_complete"
    /\ LET elapsed == now - wait.start_time
           still_running == find_processes_by_command(wait.command_pattern)
           w == [wait EXCEPT !.elapsed = elapsed,
                             !.still_running = still_running,
                             !.probes = wait.probes + Cardinality(wait.initial_pids)]
       IN  IF still_running = {}
           THEN /\ wait' = Returned(w, "completed")
                /\ spc' = "idle"
           ELSE IF elapsed >= wait.timeout
           THEN /\ wait' = Returned(w, "timeout")
                /\ spc' = "idle"
           ELSE /\ wait' = [w EXCEPT !.sleeps = wait.sleeps + 1,
                                     !.wake_at = now + wait.poll_interval]
                /\ spc' = "sleeping"
    /\ UNCHANGED <<procs, now>>
    /\ UNCHANGED <<apiKey, circuit_breaker, gpc, retry_count, call>>
    /\ UNCHANGED <<loopVars, gpt5Vars, monitorVars, sessionVars>>

\* One pass of the loop of sleep_until_command_complete, up to the call of
\* time.sleep: elapsed, a probe of each pid of initial_pids, the timeout
\* test.
SleepUntilCommandCompletePoll ==
    /\ spc = "loop"
    /\ wait.tool = "sleep_until_command_complete"
    /\ LET elapsed == now - wait.start_time
           still_running == {pid \in wait.initial_pids : process_exists(pid)}
           w == [wait EXCEPT !.elapsed = elapsed,
                             !.still_running = still_running,
                             !.probes = wait.probes + Cardinality(wait.initial_pids)]
       IN  IF still_running = {}
           THEN /\ wait' = Returned(w, "completed")
                /\ spc' = "idle"
           ELSE IF elapsed >= wait.timeout
           THEN /\ wait' = Returned(w, "timeout")
                /\ spc' = "idle"
           ELSE /\ wait' = [w EXCEPT !.sleeps = wait.sleeps + 1,
                                     !.wake_at = now + wait.poll_interval]
                /\ spc' = "sleeping"
    /\ UNCHANGED <<procs, now>>
    /\ UNCHANGED <<apiKey, circuit_breaker, gpc, retry_count, call>>
    /\ UNCHANGED <<loopVars, gpt5Vars, monitorVars, sessionVars>>

\* time.sleep(poll_interval) as the clock moves on; the loop goes round when
\* the interval is over.
TimeSleep ==
    /\ spc = "sleeping"
    /\ now' = now + 1
    /\ spc' = IF now + 1 >= wait.wake_at THEN "loop" ELSE "sleeping"
    /\ UNCHANGED <<procs, wait>>
    /\ UNCHANGED <<apiKey, circuit_breaker, gpc, retry_count, call>>
    /\ UNCHANGED <<loopVars, gpt5Vars, monitorVars, sessionVars>>

\* ------------------------------------------------------------------------
\* Process monitor: monitor_process
\* ------------------------------------------------------------------------

\* Last instant of the wall clock at which monitor_process may still run.
MaxMonitorClock == 9000

\* Seconds between two checkpoint notifications.
notification_period == 3600

\* Values of the timeout argument (6900 is the default).
MonitorTimeouts == {0, 3600, 6900}

\* Seconds from one pass of the loop shown to the next one shown: the passes
\* in between, which find the target alive and nothing due, are left out.
MonitorSteps == {1800, 1801}

\* How an attempt at a side effect goes: it works, it is refused (credentials
\* not configured, status other than 200, file not there), or an exception
\* such as an I/O error is raised in the middle of it.
EffectResults == {"ok", "refused", "error"}

NoPath == "None"

\* Marks an exception that leaves a function.
Raise == "raise"

\* An exception that leaves get_log_tail.
get_log_tail_Unguarded(r) ==
    CASE r = "ok" -> "lines"
      [] r = "refused" -> "Log file not found"
      [] OTHER -> Raise

\* get_log_tail: the last lines, or a text saying why there are none; its
\* except clause takes every Exception.
get_log_tail(r) ==
    CASE r = "ok" -> "lines"
      [] r = "refused" -> "Log file not found"
      [] OTHER -> "Error reading log file"

\* send_crash_email: True, None without credentials (the call of the
\* undefined name logging is caught as well), False on any Exception.
send_crash_email(r) ==
    CASE r = "ok" -> "True"
      [] r = "refused" -> "False"
      [] OTHER -> "False"

\* send_pushover_with_attachment, with get_wandb_metrics_and_url and
\* generate_training_plots before it: each of them ends in an except clause
\* that takes every Exception.
send_pushover_with_attachment(r) ==
    CASE r = "ok" -> "True"
      [] r = "refused" -> "False"
      [] OTHER -> "False"

NoMonitor ==
    [pid |-> 0, log_path |-> NoPath, timeout |-> 0, start_time |-> 0,
     next_notification_time |-> 0, notification_count |-> 0,
     elapsed_time |-> 0, status |-> "none", done |-> TRUE,
     pushover |-> "none", log_tail |-> "none", email |-> "none",
     log_tail_500 |-> ""]

InitMonitor ==
    /\ mpc = "idle"
    /\ monitor = NoMonitor

\* monitor_process up to its loop: the pid check, start_time, the probe, the
\* "Training Started" notification.
MonitorStart ==
    /\ mpc = "idle"
    /\ \E pid \in Pids \cup {0}, log_path \in {NoPath, "train.log"},
          t \in MonitorTimeouts, r \in EffectResults :
        LET m == [NoMonitor EXCEPT !.pid = pid, !.log_path = log_path,
                                   !.timeout = t, !.start_time = now,
                                   !.done = FALSE]
            sent == send_pushover_with_attachment(r)
        IN  /\ \A d \in MonitorSteps : now + t + d <= MaxMonitorClock
            /\ IF pid <= 0
               THEN /\ monitor' = [m EXCEPT !.status = "raise_invalid_pid",
                                            !.done = TRUE]
                    /\ UNCHANGED mpc
               ELSE IF ~process_exists(pid)
               THEN /\ monitor' = [m EXCEPT !.status = "not_found", !.done = TRUE]
                    /\ UNCHANGED mpc
               ELSE IF sent = Raise
               THEN /\ monitor' = [m EXCEPT !.status = "raise_side_effect",
                                            !.done = TRUE, !.pushover = r]
                    /\ UNCHANGED mpc
               ELSE /\ monitor' = [m EXCEPT !.pushover = r,
                                            !.next_notification_time =
                                                now + notification_period]
                    /\ mpc' = "loop"
    /\ UNCHANGED <<procs, now>>
    /\ UNCHANGED <<apiKey, circuit_breaker, gpc, retry_count, call>>
    /\ UNCHANGED <<spc, wait>>
    /\ UNCHANGED <<loopVars, gpt5Vars, sessionVars>>

\* One pass of the loop of monitor_process: the checkpoint notification when
\* it is due, the probe with the log tail and the crash e-mail when the
\* target is gone, the timeout test with its notification, time.sleep.
MonitorPoll ==
    /\ mpc = "loop"
    /\ LET elapsed_time == now - monitor.start_time
           due == elapsed_time >= monitor.next_notification_time - monitor.start_time
           gone == ~process_exists(monitor.pid)
           logged == monitor.log_path # NoPath
           over == elapsed_time >= monitor.timeout
       IN
       \E r1 \in IF due THEN EffectResults ELSE {"none"},
          r2 \in IF gone /\ logged THEN EffectResults ELSE {"none"},
          r3 \in IF gone /\ logged THEN EffectResults ELSE {"none"},
          r4 \in IF ~gone /\ over THEN EffectResults ELSE {"none"},
          d \in MonitorSteps :
        LET checkpoint == IF due THEN send_pushover_with_attachment(r1) ELSE "none"
            m1 == [monitor EXCEPT
                     !.elapsed_time = elapsed_time,
                     !.pushover = r1,
                     !.log_tail = "none",
                     !.email = "none",
                     !.notification_count = IF due THEN @ + 1 ELSE @,
                     !.next_notification_time =
                            IF due THEN @ + notification_period ELSE @]
            log_tail_500 == IF logged THEN get_log_tail(r2) ELSE ""
            mailed == IF logged THEN send_crash_email(r3) ELSE "none"
            final == send_pushover_with_attachment(r4)
            raised(m) == /\ monitor' = [m EXCEPT !.status = "raise_side_effect",
                                                 !.done = TRUE]
                         /\ mpc' = "idle"
                         /\ UNCHANGED now
        IN  IF checkpoint = Raise THEN raised(m1)
            ELSE IF gone
            THEN IF log_tail_500 = Raise \/ mailed = Raise
                 THEN raised([m1 EXCEPT !.log_tail = r2, !.email = r3])
                 ELSE /\ monitor' = [m1 EXCEPT
                                       !.status = "finished", !.done = TRUE,
                                       !.log_tail = r2, !.email = r3,
                                       !.log_tail_500 = log_tail_500]
                      /\ mpc' = "idle"
                      /\ UNCHANGED now
            ELSE IF over
            THEN IF final = Raise
                 THEN raised([m1 EXCEPT !.pushover = r4])
                 ELSE /\ monitor' = [m1 EXCEPT !.status = "monitor_timeout",
                                               !.done = TRUE, !.pushover = r4]
                      /\ mpc' = "idle"
                      /\ UNCHANGED now
            ELSE /\ monitor' = m1
                 /\ now' = now + d
                 /\ UNCHANGED mpc
    /\ UNCHANGED procs
    /\ UNCHANGED <<apiKey, circuit_breaker, gpc, retry_count, call>>
    /\ UNCHANGED <<spc, wait>>
    /\ UNCHANGED <<loopVars, gpt5Vars, sessionVars>>

\* ---------------------------------------------------------------------------
\* The ask-llm output manager (src/tmux/ask-llm-output-manager.py): session
\* files under base_dir, one directory per model.  A file's content is the
\* sequence of the strings written to it, one element per write call.
\* ---------------------------------------------------------------------------

MaxSessions == 2

MaxChunks == 3

MaxSessionClock == 1

ModelNames == {"deepseek", "grok"}

Questions == {"what?"}

Responses == {"a", "b"}

\* files_content: None, or a list of (path, content) pairs.
FilesContents == {<<>>, <<"test.py">>}

\* _get_human_timestamp: strftime("%Y-%m-%d_%H-%M-%S") keeps whole seconds,
\* so two calls within one second give the same name.
get_human_timestamp(t) == t

timestamped_path(model_name, t) ==
    [dir |-> model_name, name |-> "timestamp.txt", stamp |-> get_human_timestamp(t)]

latest_path(model_name) ==
    [dir |-> model_name, name |-> "latest_response.txt", stamp |-> NoTime]

\* The string create_session_file joins from its content_lines.
initial_content(model_name, question, files_content, t) ==
    [kind |-> "session", model |-> model_name, stamp |-> t,
     attached |-> files_content, text |-> question]

\* response + "\n\n"
response_content(response) ==
    [kind |-> "response", model |-> "", stamp |-> NoTime,
     attached |-> <<>>, text |-> response]

\* The FOLLOW-UP banner, the question and the RESPONSE banner, joined.
follow_up_text(question) ==
    [kind |-> "follow_up", model |-> "", stamp |-> NoTime,
     attached |-> <<>>, text |-> question]

\* Path.write_text: create or truncate, then write.
write_text(fs, path, content) == (path :> <<content>>) @@ fs

\* open(path, 'a') and one f.write: create if missing, write at the end.
append_text(fs, path, content) ==
    IF path \in DOMAIN fs
    THEN [fs EXCEPT ![path] = Append(@, content)]
    ELSE (path :> <<content>>) @@ fs

create_session_file(fs, model_name, question, files_content, t) ==
    LET initial == initial_content(model_name, question, files_content, t)
    IN  write_text(write_text(fs, timestamped_path(model_name, t), initial),
                   latest_path(model_name), initial)

append_response_Rewrite(fs, timestamped_file, latest_file, response) ==
    write_text(append_text(fs, timestamped_file, response_content(response)),
               latest_file, response_content(response))

append_response(fs, timestamped_file, latest_file, response) ==
    append_text(append_text(fs, timestamped_file, response_content(response)),
                latest_file, response_content(response))

append_follow_up_question(fs, timestamped_file, latest_file, question) ==
    append_text(append_text(fs, timestamped_file, follow_up_text(question)),
                latest_file, follow_up_text(question))

\* No operation is between its two writes.
NoWriting ==
    [op |-> "none",
     timestamped_file |-> [dir |-> "", name |-> "", stamp |-> NoTime],
     latest_file |-> [dir |-> "", name |-> "", stamp |-> NoTime],
     content |-> [kind |-> "none", model |-> "", stamp |-> NoTime,
                  attached |-> << >>, text |-> ""],
     stopped |-> FALSE]

InitSessions ==
    /\ files = << >>
    /\ sessions = << >>
    /\ writing = NoWriting

\* The session created last: the pair of paths its caller holds.
CurrentSession == sessions[Len(sessions)]

CreateSessionFile ==
    /\ Len(sessions) < MaxSessions
    /\ \E model_name \in ModelNames, question \in Questions,
          files_content \in FilesContents :
          /\ files' = create_session_file(files, model_name, question,
                                          files_content, now)
          /\ sessions' = Append(sessions,
                 [timestamped_file |-> timestamped_path(model_name, now),
                  latest_file |-> latest_path(model_name)])
    /\ UNCHANGED writing
    /\ UNCHANGED <<loopVars, proxyVars, gpt5Vars, sleepVars, monitorVars>>

AppendResponseBy(s) ==
    /\ Len(files[s.timestamped_file]) < MaxChunks
    /\ \E response \in Responses :
          files' = append_response(files, s.timestamped_file, s.latest_file,
                                   response)
    /\ UNCHANGED <<sessions, writing>>
    /\ UNCHANGED <<loopVars, proxyVars, gpt5Vars, sleepVars, monitorVars>>

AppendFollowUpQuestionBy(s) ==
    /\ Len(files[s.timestamped_file]) < MaxChunks
    /\ \E question \in Questions :
          files' = append_follow_up_question(files, s.timestamped_file,
                                             s.latest_file, question)
    /\ UNCHANGED <<sessions, writing>>
    /\ UNCHANGED <<loopVars, proxyVars, gpt5Vars, sleepVars, monitorVars>>

\* The caller of the session created last appends to it.
AppendResponse ==
    /\ sessions # << >>
    /\ AppendResponseBy(CurrentSession)

AppendFollowUpQuestion ==
    /\ sessions # << >>
    /\ AppendFollowUpQuestionBy(CurrentSession)

\* Any session that has been created appends, not only the last one: the
\* callers are separate chat processes holding their own pair of paths.
AppendResponseAny ==
    \E i \in 1..Len(sessions) : AppendResponseBy(sessions[i])

AppendFollowUpQuestionAny ==
    \E i \in 1..Len(sessions) : AppendFollowUpQuestionBy(sessions[i])

\* A second of wall-clock time passes between two operations.
SessionTick ==
    /\ now < MaxSessionClock
    /\ now' = now + 1
    /\ UNCHANGED <<apiKey, circuit_breaker, gpc, retry_count, call>>
    /\ UNCHANGED <<loopVars, gpt5Vars, sleepVars, monitorVars, sessionVars>>

\* ---------------------------------------------------------------------------
\* The same operations one file write at a time, in a process that can stop
\* (be killed, lose power) at any point.
\* ---------------------------------------------------------------------------

\* timestamped_file.write_text(initial_content)
CreateSessionFileFirstWrite ==
    /\ writing.op = "none" /\ ~writing.stopped
    /\ Len(sessions) < MaxSessions
    /\ \E model_name \in ModelNames, question \in Questions,
          files_content \in FilesContents :
          LET initial == initial_content(model_name, question, files_content, now)
          IN  /\ files' = write_text(files, timestamped_path(model_name, now),
                                     initial)
              /\ writing' = [op |-> "create_session_file",
                             timestamped_file |-> timestamped_path(model_name, now),
                             latest_file |-> latest_path(model_name),
                             content |-> initial,
                             stopped |-> FALSE]
    /\ UNCHANGED sessions
    /\ UNCHANGED <<loopVars, proxyVars, gpt5Vars, sleepVars, monitorVars>>

\* latest_file.write_text(initial_content); return timestamped_file, latest_file
CreateSessionFileSecondWrite ==
    /\ writing.op = "create_session_file" /\ ~writing.stopped
    /\ files' = write_text(files, writing.latest_file, writing.content)
    /\ sessions' = Append(sessions,
           [timestamped_file |-> writing.timestamped_file,
            latest_file |-> writing.latest_file])
    /\ writing' = NoWriting
    /\ UNCHANGED <<loopVars, proxyVars, gpt5Vars, sleepVars, monitorVars>>

\* with open(timestamped_file, 'a') as f: f.write(response_content)
AppendResponseFirstWrite ==
    /\ writing.op = "none" /\ ~writing.stopped
    /\ sessions # << >>
    /\ Len(files[CurrentSession.timestamped_file]) < MaxChunks
    /\ \E response \in Responses :
          /\ files' = append_text(files, CurrentSession.timestamped_file,
                                  response_content(response))
          /\ writing' = [op |-> "append_response",
                         timestamped_file |-> CurrentSession.timestamped_file,
                         latest_file |-> CurrentSession.latest_file,
                         content |-> response_content(response),
                         stopped |-> FALSE]
    /\ UNCHANGED sessions
    /\ UNCHANGED <<loopVars, proxyVars, gpt5Vars, sleepVars, monitorVars>>

\* with open(timestamped_file, 'a') as f: f.write(follow_up_text)
AppendFollowUpQuestionFirstWrite ==
    /\ writing.op = "none" /\ ~writing.stopped
    /\ sessions # << >>
    /\ Len(files[CurrentSession.timestamped_file]) < MaxChunks
    /\ \E question \in Questions :
          /\ files' = append_text(files, CurrentSession.timestamped_file,
                                  follow_up_text(question))
          /\ writing' = [op |-> "append_follow_up_question",
                         timestamped_file |-> CurrentSession.timestamped_file,
                         latest_file |-> CurrentSession.latest_file,
                         content |-> follow_up_text(question),
                         stopped |-> FALSE]
    /\ UNCHANGED sessions
    /\ UNCHANGED <<loopVars, proxyVars, gpt5Vars, sleepVars, monitorVars>>

\* with open(latest_file, 'a') as f: f.write(...)
AppendSecondWrite ==
    /\ writing.op \in {"append_response", "append_follow_up_question"}
    /\ ~writing.stopped
    /\ files' = append_text(files, writing.latest_file, writing.content)
    /\ writing' = NoWriting
    /\ UNCHANGED sessions
    /\ UNCHANGED <<loopVars, proxyVars, gpt5Vars, sleepVars, monitorVars>>

\* The process stops where it is; nothing it had yet to write is written.
ProcessStops ==
    /\ ~writing.stopped
    /\ writing' = [writing EXCEPT !.stopped = TRUE]
    /\ UNCHANGED <<files, sessions>>
    /\ UNCHANGED <<loopVars, proxyVars, gpt5Vars, sleepVars, monitorVars>>

\* The clock of a process that is still running.
SessionStepTick ==
    /\ ~writing.stopped
    /\ SessionTick

Init ==
    InitLoop /\ InitProxy /\ InitGpt5 /\ InitSleep /\ InitMonitor /\ InitSessions

Next ==
    \/ ReceiveLine
    \/ ReceiveEOF
    \/ HandleInitialize
    \/ HandleToolsList
    \/ UnknownMethod
    \/ HandleToolsCall
    \/ HandlerReturn
    \/ HandlerRaise

Spec == Init /\ [][Next]_vars

\* The Grok proxy's tools called one after another, as its dispatch loop
\* calls them.
NextGrok ==
    \/ GrokChatStart
    \/ GrokChatAttempt
    \/ GrokHealth
    \/ Tick

InitGrok == Init /\ server = "grok_proxy"

SpecGrok == InitGrok /\ [][NextGrok]_vars

\* The Grok proxy answering every kind of request, each handled as a whole.
NextGrokServer ==
    \/ GrokChatStart
    \/ GrokChatAttempt
    \/ GrokHealth
    \/ GrokInitialize
    \/ GrokToolsList
    \/ GrokUnknownMethod
    \/ GrokUnknownTool
    \/ Tick

SpecGrokServer == InitGrok /\ [][NextGrokServer]_vars

\* The same, with every pass of the retry loop coming to an end: the POST is
\* bounded by its ClientTimeout(total=300), the backoff sleep is finite.
SpecGrokFair == InitGrok /\ [][NextGrok]_vars /\ WF_vars(GrokChatAttempt)

\* The four servers that put a remote model behind a tool, their tools
\* called one after another.
ProxyServers == {"grok_proxy", "gpt5_proxy", "gpt5_proxy_with_search", "xai_proxy"}

NextProxies ==
    \/ server = "grok_proxy" /\ NextGrok
    \/ Gpt5Start
    \/ Gpt5Attempt
    \/ XaiConsult

InitProxies == Init /\ server \in ProxyServers

SpecProxies == InitProxies /\ [][NextProxies]_vars

\* The blocking tools of the sleep server called one after another, on a
\* machine whose processes come and go.
NextSleep ==
    \/ ProcStart
    \/ ProcExit
    \/ ProcReap
    \/ SleepUntilCompleteStart
    \/ SleepUntilCompletePoll
    \/ SleepUntilCommandCompleteStart
    \/ SleepUntilCommandCompletePoll
    \/ TimeSleep

InitSleepServer == Init /\ server = "sleep"

SpecSleep == InitSleepServer /\ [][NextSleep]_vars

\* The same, with a call in progress going on: the loop takes its next
\* pass and time.sleep comes back.
SpecSleepFair ==
    /\ InitSleepServer
    /\ [][NextSleep]_vars
    /\ WF_vars(SleepUntilCompletePoll)
    /\ WF_vars(SleepUntilCommandCompletePoll)
    /\ WF_vars(TimeSleep)

\* monitor_process called again and again, on a machine whose processes
\* come and go.
NextMonitor ==
    \/ ProcStart
    \/ ProcExit
    \/ ProcReap
    \/ MonitorStart
    \/ MonitorPoll

InitMonitorServer == Init /\ server = "process-monitor"

SpecMonitor == InitMonitorServer /\ [][NextMonitor]_vars

NextGpt5 ==
    \/ Gpt5Start
    \/ Gpt5Attempt

InitGpt5Servers == Init /\ server \in Gpt5Servers

SpecGpt5 == InitGpt5Servers /\ [][NextGpt5]_vars

\* The output manager used by one session at a time: a session is appended
\* to until the next one is created, and not afterwards.
NextSession ==
    \/ CreateSessionFile
    \/ AppendResponse
    \/ AppendFollowUpQuestion
    \/ SessionTick

InitSession == Init /\ server = "sleep"

SpecSession == InitSession /\ [][NextSession]_vars

\* The output manager one write at a time, with stops.
NextSessionSteps ==
    \/ CreateSessionFileFirstWrite
    \/ CreateSessionFileSecondWrite
    \/ AppendResponseFirstWrite
    \/ AppendFollowUpQuestionFirstWrite
    \/ AppendSecondWrite
    \/ ProcessStops
    \/ SessionStepTick

SpecSessionSteps == InitSession /\ [][NextSessionSteps]_vars

\* The output manager used by several sessions at once, whole operations
\* interleaved in any order.
NextSessions ==
    \/ CreateSessionFile
    \/ AppendResponseAny
    \/ AppendFollowUpQuestionAny
    \/ SessionTick

SpecSessions == InitSession /\ [][NextSessions]_vars

\* ------------------------------------------------------------------------
\* Dispatch loop: properties
\* ------------------------------------------------------------------------

InFlight == pc \in {"Dispatching", "InHandler"}

IsResult(f) == "result" \in DOMAIN f

IsError(f) == "error" \in DOMAIN f

\* C1: every line that parses to a JSON object gets exactly one frame: the
\* i-th frame on stdout answers the i-th request taken up, carries that
\* request's id, and holds exactly one of result and error.
C1_OneResponsePerRequest ==
    /\ Len(stdout) = IF InFlight THEN Len(reads) - 1 ELSE Len(reads)
    /\ \A i \in 1..Len(stdout) :
        /\ stdout[i].id = reads[i].id
        /\ IsResult(stdout[i]) # IsError(stdout[i])

C1_Witness ==
    /\ Len(stdout) = 2
    /\ IsResult(stdout[1]) /\ stdout[1].id = "1"
    /\ IsError(stdout[2]) /\ stdout[2].id = "2"

\* C2: a newline-terminated line that is not valid JSON does not end the
\* loop, and an error frame is written for it.
C2_MalformedLineAnswered ==
    (lastLine.kind = "malformed" /\ lastLine.nl) =>
        /\ pc # "Closed"
        /\ Len(stdout) > 0
        /\ IsError(Last(stdout))

\* C3: a newline-terminated line of valid JSON, whether a request object, an
\* object lacking method, params or id, or not an object at all, never ends
\* the loop.
C3_NonRequestAnswered ==
    (lastLine.kind \in {"null", "nonobject", "object"} /\ lastLine.nl) =>
        pc # "Closed"

\* C4: a failure inside dispatch (unknown method, unknown tool, exception of
\* a handler) gives exactly one error frame with code -32603 and the
\* exception's message, the loop is back at AwaitingRequest, and the request
\* after it is answered as usual.
C4_ErrorFrame ==
    outcome.kind = "raise" =>
        /\ ~InFlight
        /\ Len(stdout) = Len(reads)
        /\ Last(stdout) = [jsonrpc |-> "2.0", id |-> request.id,
                           error |-> [code |-> -32603,
                                      message |-> outcome.message]]

C4_NextAnswered ==
    \A i \in 2..Len(stdout) :
        (IsError(stdout[i - 1]) /\ reads[i].method = "initialize") =>
            stdout[i] = [jsonrpc |-> "2.0", id |-> reads[i].id,
                         result |-> handle_initialize(server).result]

C4_FailureYieldsOneError ==
    /\ [](C4_ErrorFrame /\ C4_NextAnswered)
    /\ [][(outcome'.kind = "raise" /\ outcome.kind # "raise") =>
            (pc' = "AwaitingRequest" /\ Len(stdout') = Len(stdout) + 1)]_vars

C4_Witness ==
    /\ pc = "AwaitingRequest"
    /\ Len(stdout) = 2
    /\ IsError(stdout[1])
    /\ stdout[1].error.message = UnknownTool(server, "nope")
    /\ IsResult(stdout[2])
    /\ reads[2].method = "initialize"

\* C5: one request at a time.  A line is read only when every request taken
\* up so far has its frame on stdout, at most one request is without its
\* frame, and frames come in the order of the requests, also while a tool's
\* handler is running.
C5_OneAtATime ==
    /\ [](/\ Len(reads) - Len(stdout) \in {0, 1}
          /\ (Len(reads) - Len(stdout) = 1) <=> InFlight
          /\ \A i \in 1..Len(stdout) : stdout[i].id = reads[i].id)
    /\ [][/\ (lastLine' # lastLine \/ reads' # reads) =>
                (Len(stdout) = Len(reads) /\ stdout' = stdout)
          /\ stdout' # stdout =>
                (reads' = reads /\ Len(stdout') = Len(reads))]_vars

C5_Witness ==
    /\ pc = "InHandler"
    /\ Len(reads) = 2
    /\ Len(stdout) = 1

\* C6 as claimed: a line without its trailing newline closes the loop and
\* no frame is ever written for it.
C6_UnterminatedLineDropped ==
    /\ ~lastLine.nl => pc = "Closed"
    /\ \A i \in 1..Len(stdout) : reads[i].nl

\* C6 as amended: end of stream closes the loop, nothing is written on the
\* way to Closed or after it, and after an unterminated line the only read
\* left is the one that finds the end of the stream; the unterminated line
\* itself is handled like any other, so an object gets its one frame.
C6_CloseWithoutFrame ==
    /\ [](lastLine.kind = "eof" => pc = "Closed")
    /\ [](\A i \in 1..Len(reads) :
            (~reads[i].nl /\ (i < Len(reads) \/ ~InFlight)) =>
                (i <= Len(stdout) /\ stdout[i].id = reads[i].id))
    /\ [][pc' = "Closed" => stdout' = stdout]_vars
    /\ [][pc # "Closed"]_vars
    /\ [][(atEOF /\ pc = "AwaitingRequest") =>
            (pc' = "Closed" /\ lastLine'.kind = "eof")]_vars

C6_Witness ==
    /\ pc = "Closed"
    /\ lastLine.kind = "eof"
    /\ Len(reads) = 1
    /\ ~reads[1].nl
    /\ Len(stdout) = 1
    /\ stdout[1].id = reads[1].id

\* C7: in every server the answer to tools/list is a result holding the
\* tools in registration order, and the listed names are the names
\* tools/call routes to a handler.
C7_ToolsListResult ==
    /\ Range(ToolList(server)) = DispatchNames(server)
    /\ (outcome.kind # "none" /\ request.method = "tools/list") =>
        /\ IsResult(Last(stdout))
        /\ Last(stdout).result = [tools |-> ToolList(server)]

\* ------------------------------------------------------------------------
\* Grok proxy: properties
\* ------------------------------------------------------------------------

\* Seconds between the last recorded failure and the start of the call.
ElapsedAtStart == call.startedAt - call.cbAtStart.last_failure_time

FailureResults ==
    {"api_error", "timeout_error", "client_error", "parse_error",
     "exception_error", "unhealthy"}

C9_TrialResolves ==
    /\ [](/\ call.done
          /\ call.cbAtStart.state = "open"
          /\ call.posts >= 1
          => IF call.result \in {"ok", "healthy"}
             THEN /\ circuit_breaker.state = "closed"
                  /\ circuit_breaker.failure_count = 0
             ELSE /\ call.result \in FailureResults
                  /\ circuit_breaker.state = "open"
                  /\ circuit_breaker.last_failure_time = call.finishedAt)
    /\ [][(circuit_breaker.state = "half-open"
            /\ circuit_breaker' # circuit_breaker) =>
            \/ /\ call'.result = "ok"
               /\ circuit_breaker'.state = "closed"
               /\ circuit_breaker'.failure_count = 0
            \/ /\ call'.result \in FailureResults
               /\ circuit_breaker'.state = "open"
               /\ circuit_breaker'.last_failure_time = now']_vars

C9_Witness ==
    /\ call.done
    /\ call.cbAtStart.state = "open"
    /\ call.posts >= 1
    /\ call.result \in FailureResults
    /\ circuit_breaker.state = "open"
    /\ circuit_breaker.last_failure_time = call.finishedAt
    /\ call.cbAtStart.last_failure_time < call.finishedAt - timeout

\* C10: a grok_health call that finds can_execute() false makes no POST,
\* reports circuit_open and leaves the breaker as it found it.
C10_HealthRespectsBreaker ==
    (call.tool = "grok_health"
        /\ ~can_execute(call.cbAtStart, call.startedAt).ok) =>
        /\ call.posts = 0
        /\ call.result = "circuit_open"
        /\ circuit_breaker = call.cbAtStart

C10_Witness ==
    /\ call.tool = "grok_health"
    /\ call.result = "circuit_open"
    /\ call.cbAtStart.state = "open"
    /\ circuit_breaker.state = "open"

\* The replies after which call_grok_api goes round its loop again.
RetriableReplies == {"5xx", "timeout", "clienterror"}

\* C11: one call_grok_api invocation makes at most 3 POSTs and always comes
\* to an end; a POST after the first is made only when the one before it came
\* to a 5xx status, a timeout or an aiohttp.ClientError, and a POST that came
\* to anything else (a 4xx status, any other exception, a 200) ends the call.
C11_BoundedRetries ==
    /\ [](call.posts <= 3)
    /\ [](gpc = "chat" =>
            /\ call.posts = retry_count
            /\ call.posts < 3
            /\ call.posts >= 1 => call.reply \in RetriableReplies)
    /\ [][(gpc = "chat" /\ call'.posts = call.posts + 1 /\ call.posts >= 1) =>
            call.reply \in RetriableReplies]_vars
    /\ [][(gpc = "chat" /\ call'.reply \notin RetriableReplies) =>
            (gpc' = "idle" /\ call'.done /\ call'.posts = call.posts + 1)]_vars
    /\ (gpc = "chat") ~> (gpc = "idle" /\ call.done)

C11_Witness ==
    /\ call.tool = "grok_chat"
    /\ call.done
    /\ call.posts = 3
    /\ call.reply = "timeout"
    /\ call.result = "timeout_error"

\* ------------------------------------------------------------------------
\* Remote-API proxies: properties
\* ------------------------------------------------------------------------

\* The results with which the exception of a tool call leaves
\* handle_tools_call, to be answered by main with an error frame.
RaisedResults ==
    {"raise_messages_required", "raise_api_key_required",
     "raise_model_unavailable", "raise_failed"}

ChatTools == {"grok_chat", "gpt5_chat", "gpt5_search_and_analyze", "xai_consult"}

\* C12: in each of the four proxy servers, a call all of whose requests
\* failed in a transient way (timeout, 5xx, transport error) ends by
\* returning text to the host, not by raising.
C12_TransientSurfacedAsText ==
    (/\ call.tool \in ChatTools
     /\ call.done
     /\ call.posts >= 1
     /\ call.transient) =>
        call.result \notin RaisedResults

\* C13: a permanent error is not retried.  Missing credentials end the call
\* before any request; a request that came to "model not available" is the
\* last of its call, which ends at once with the error that carries the
\* instruction.
C13_PermanentNotRetried ==
    /\ call.result = "raise_api_key_required" => (call.done /\ call.posts = 0)
    /\ (call.tool \in {"gpt5_chat", "gpt5_search_and_analyze"}
            /\ ModelUnavailable(server, call.reply)) =>
        /\ call.done
        /\ call.result = "raise_model_unavailable"

\* C14: the budget call_gpt5 gets from calc_max_tokens never takes the
\* estimated prompt and the completion beyond the context limit less the
\* safety margin of 100 tokens.
C14_BudgetWithinContext ==
    gpc = "gpt5" =>
        /\ max_tokens = calc_max_tokens(messages, env_limit)
        /\ env_limit > 0 =>
            estimate_prompt_tokens(messages) + max_tokens <= context_limit - 100

\* ------------------------------------------------------------------------
\* Sleep server: properties
\* ------------------------------------------------------------------------

\* Seconds since start_time.
SinceStart == now - wait.start_time

\* C15: sleep_until_complete on a valid pid that has no process when the
\* call is made returns not_found at once: one probe, no sleep, no pass of
\* the loop, no time gone.
C15_NotFoundImmediately ==
    /\ [][(/\ spc = "idle"
           /\ wait' # wait
           /\ wait'.tool = "sleep_until_complete"
           /\ wait'.pid \in Pids
           /\ ~process_exists(wait'.pid)) =>
            /\ wait'.done
            /\ wait'.status = "not_found"
            /\ spc' = "idle"
            /\ wait'.probes = 1
            /\ wait'.sleeps = 0]_vars
    /\ []((wait.tool = "sleep_until_complete" /\ wait.status = "not_found") =>
            /\ wait.done
            /\ wait.probes = 1
            /\ wait.sleeps = 0
            /\ SinceStart = 0)

C15_Witness ==
    /\ wait.tool = "sleep_until_complete"
    /\ wait.status = "not_found"
    /\ procs[wait.pid] = "gone"
    /\ wait.probes = 1

\* C16: sleep_until_complete with timeout T and poll interval p > 0 on a
\* process that is still running when the call ends comes to an end, with
\* status timeout, at an elapsed time of at least T and less than T + p; and
\* a call in progress has not yet run for T + p.
C16_TimeoutWithinOnePoll ==
    /\ []((wait.tool = "sleep_until_complete" /\ wait.status = "timeout") =>
            /\ wait.elapsed = SinceStart
            /\ wait.elapsed >= wait.timeout
            /\ wait.elapsed < wait.timeout + wait.poll_interval)
    /\ []((wait.tool = "sleep_until_complete" /\ ~wait.done) =>
            SinceStart < wait.timeout + wait.poll_interval)
    /\ []((/\ wait.tool = "sleep_until_complete"
           /\ wait.done
           /\ wait.probes >= 2
           /\ procs[wait.pid] = "running") =>
            wait.status = "timeout")
    /\ (wait.tool = "sleep_until_complete" /\ ~wait.done) ~> wait.done

C16_Witness ==
    /\ wait.tool = "sleep_until_complete"
    /\ wait.status = "timeout"
    /\ procs[wait.pid] = "running"
    /\ wait.timeout = 3
    /\ wait.poll_interval = 2
    /\ wait.elapsed = 4

\* C17: a target that was there when sleep_until_complete was called and
\* exits at elapsed time t, before the timeout, has the call return
\* completed at an elapsed time of at least t and less than t + p.
C17_CompletedWithinOnePoll ==
    (/\ wait.tool = "sleep_until_complete"
     /\ wait.exited_at # NoTime
     /\ wait.exited_at - wait.start_time < wait.timeout) =>
        LET t == wait.exited_at - wait.start_time
        IN  IF wait.done
            THEN /\ wait.status = "completed"
                 /\ wait.elapsed >= t
                 /\ wait.elapsed < t + wait.poll_interval
            ELSE SinceStart < t + wait.poll_interval

\* C18: sleep_until_command_complete looks the pattern up once, at the
\* start, and probes only the pids it found then: it returns completed on
\* the first pass that finds none of them alive and on no other, whatever
\* other process matches the pattern by then.
C18_SnapshotOnce ==
    /\ [](wait.tool = "sleep_until_command_complete" =>
            /\ wait.scans <= 1
            /\ wait.still_running \subseteq wait.initial_pids
            /\ wait.status = "completed" =>
                    /\ wait.still_running = {}
                    /\ wait.initial_pids # {}
                    /\ \A pid \in wait.initial_pids : ~process_exists(pid)
            /\ wait.status = "timeout" => wait.still_running # {}
            /\ spc = "sleeping" => wait.still_running # {})
    /\ [][(~wait.done /\ wait.tool = "sleep_until_command_complete") =>
            /\ wait'.initial_pids = wait.initial_pids
            /\ wait'.scans = wait.scans]_vars
    /\ [][(/\ spc = "loop"
           /\ wait.tool = "sleep_until_command_complete"
           /\ wait' # wait) =>
            (wait'.status = "completed" <=>
                \A pid \in wait.initial_pids : ~process_exists(pid))]_vars

C18_Witness ==
    /\ wait.tool = "sleep_until_command_complete"
    /\ wait.status = "completed"
    /\ wait.command_pattern = cmd_sleep
    /\ wait.initial_pids = {2, 3}
    /\ wait.sleeps >= 1
    /\ procs[4] = "running"
    /\ 4 \in find_processes_by_command(wait.command_pattern)

\* ------------------------------------------------------------------------
\* Process monitor: properties
\* ------------------------------------------------------------------------

\* C19: what monitor_process returns follows from the target being there or
\* not and from the timeout alone.  However the notifications, the log tail
\* and the crash e-mail go, a call on a valid pid returns not found when the
\* target is not there at the start, process finished on the first pass that
\* finds it gone, monitor timeout on the first pass that finds it there with
\* the timeout over, and never raises.
C19_SideEffectsDoNotDecide ==
    /\ [](monitor.pid \in Pids =>
            monitor.status \in {"none", "not_found", "finished", "monitor_timeout"})
    /\ [][(mpc = "idle" /\ monitor' # monitor /\ monitor'.pid \in Pids) =>
            monitor'.status =
                IF ~process_exists(monitor'.pid) THEN "not_found" ELSE "none"]_vars
    /\ [][(mpc = "loop" /\ monitor' # monitor) =>
            monitor'.status =
                IF ~process_exists(monitor.pid) THEN "finished"
                ELSE IF now - monitor.start_time >= monitor.timeout
                THEN "monitor_timeout"
                ELSE "none"]_vars

C19_Witness ==
    /\ monitor.status = "finished"
    /\ monitor.notification_count = 1
    /\ monitor.pushover = "refused"
    /\ monitor.log_tail = "error"
    /\ monitor.email = "error"
    /\ monitor.log_tail_500 = "Error reading log file"

\* ---------------------------------------------------------------------------
\* C20: for one session, after create_session_file and after every completed
\* append_response or append_follow_up_question the timestamped file and the
\* latest file have identical contents, and every append adds the same bytes
\* at the end of both.
\* ---------------------------------------------------------------------------
SameContents(s) == files[s.timestamped_file] = files[s.latest_file]

AppendedSame(s) ==
    LET before == files[s.timestamped_file]
        after  == files'[s.timestamped_file]
        latest == files'[s.latest_file]
    IN  /\ Len(after) = Len(before) + 1
        /\ SubSeq(after, 1, Len(before)) = before
        /\ Len(latest) = Len(files[s.latest_file]) + 1
        /\ SubSeq(latest, 1, Len(latest) - 1) = files[s.latest_file]
        /\ latest[Len(latest)] = after[Len(after)]

C20_SameBytesInBoth ==
    /\ [](sessions # << >> => SameContents(CurrentSession))
    /\ [][(sessions' = sessions /\ files' # files)
              => AppendedSame(CurrentSession)]_vars

\* A second session of a model has replaced the latest file of the first and
\* has then taken a response and a follow-up question.
C20_Witness ==
    /\ Len(sessions) = 2
    /\ sessions[1].latest_file = sessions[2].latest_file
    /\ sessions[1].timestamped_file # sessions[2].timestamped_file
    /\ Len(files[sessions[1].timestamped_file]) = 2
    /\ Len(files[CurrentSession.latest_file]) = 3
    /\ files[CurrentSession.latest_file][2].kind = "response"
    /\ files[CurrentSession.latest_file][3].kind = "follow_up"
    /\ SameContents(CurrentSession)

\* ---------------------------------------------------------------------------
\* C21: wherever the process stops during create_session_file,
\* append_response or append_follow_up_question, the timestamped copy and the
\* latest copy hold the same bytes: no state, between the two writes of one
\* operation included, has one copy holding what the other lacks.
\* ---------------------------------------------------------------------------
\* The bytes of a file; a file that does not exist holds none.
read_bytes(path) == IF path \in DOMAIN files THEN files[path] ELSE << >>

\* The pair of files of the operation in progress, else of the session.
PairInHand ==
    IF writing.op # "none"
    THEN [timestamped_file |-> writing.timestamped_file,
          latest_file |-> writing.latest_file]
    ELSE CurrentSession

\* Stated for the states a stopped process leaves behind, the weakest reading.
C21_CrashConsistent ==
    (writing.stopped /\ (writing.op # "none" \/ sessions # << >>))
        => read_bytes(PairInHand.timestamped_file)
               = read_bytes(PairInHand.latest_file)

\* ---------------------------------------------------------------------------
\* C22: transcripts are append-only: whatever create_session_file and append
\* operations any number of sessions perform, a timestamped file is never
\* truncated, overwritten or deleted; its content is an extension of its
\* content at every earlier time, also when two sessions of one model are
\* created within the same second.
\* ---------------------------------------------------------------------------
IsTimestamped(path) == path.name = "timestamp.txt"

Extends(later, earlier) ==
    /\ Len(later) >= Len(earlier)
    /\ SubSeq(later, 1, Len(earlier)) = earlier

C22_AppendOnly ==
    [][\A path \in DOMAIN files :
          IsTimestamped(path) =>
              /\ path \in DOMAIN files'
              /\ Extends(files'[path], files[path])]_vars

\* ---------------------------------------------------------------------------
\* C30: when two sessions of one model are active and their operations
\* interleave in any order, latest_response.txt equals the timestamped
\* transcript of the most recently created session of that model: an append
\* of the older session never reaches the shared latest file.
\* ---------------------------------------------------------------------------
SessionsOf(model_name) ==
    {i \in 1..Len(sessions) : sessions[i].latest_file = latest_path(model_name)}

MostRecent(model_name) ==
    sessions[CHOOSE i \in SessionsOf(model_name) :
                 \A j \in SessionsOf(model_name) : j <= i]

C30_LatestIsNewestSession ==
    \A model_name \in ModelNames :
        Cardinality(SessionsOf(model_name)) = 2 =>
            files[latest_path(model_name)]
                = files[MostRecent(model_name).timestamped_file]

\* ---------------------------------------------------------------------------
\* C23: within one call_grok_api invocation the backoff is exponential in the
\* attempt number: 2^k seconds are slept before the k-th retry (2 s before
\* the second attempt, 4 s before the third), only between attempts, and
\* never after the final failed attempt.
\* ---------------------------------------------------------------------------
\* The seconds slept by the time the given number of attempts has failed and
\* another one is due.
SleptBefore(posts) == IF posts <= 1 THEN 0 ELSE IF posts = 2 THEN 2 ELSE 6

C23_ExponentialBackoff ==
    /\ [][(gpc = "chat" /\ gpc' = "chat") =>
              /\ call'.posts = call.posts + 1
              /\ now' - now = 2 ^ call'.posts]_vars
    /\ [][(gpc = "chat" /\ gpc' = "idle") => now' = now]_vars
    /\ [][(gpc = "idle" /\ gpc' = "chat") => now' = now]_vars
    /\ []((call.tool = "grok_chat" /\ call.done) =>
              call.finishedAt - call.startedAt = SleptBefore(call.posts))
    /\ [](gpc = "chat" => now - call.startedAt = SleptBefore(call.posts + 1))

C23_Witness ==
    /\ call.tool = "grok_chat"
    /\ call.done
    /\ call.posts = 3
    /\ call.result = "api_error"
    /\ call.reply = "5xx"
    /\ call.finishedAt = call.startedAt + 6
    /\ now = call.finishedAt

\* ---------------------------------------------------------------------------
\* C24: the Grok proxy has one breaker for the whole process, shared by
\* grok_chat and grok_health and kept from request to request: a failure
\* recorded by either tool adds to the same failure_count (failed health
\* probes can open it for chat calls, a successful health probe closes it),
\* and initialize, tools/list and rejected or invalid requests leave it as
\* it is.
\* ---------------------------------------------------------------------------
SuccessResults == {"ok", "healthy"}

\* The step brings a request to its end.
Finishing == call'.done /\ call' # call

C24_OneSharedBreaker ==
    /\ [][(Finishing /\ call'.result \in FailureResults) =>
              /\ circuit_breaker'.failure_count
                     = circuit_breaker.failure_count + 1
              /\ circuit_breaker'.last_failure_time = now'
              /\ (circuit_breaker'.failure_count >= failure_threshold
                     => circuit_breaker'.state = "open")]_vars
    /\ [][(Finishing /\ call'.result \in SuccessResults) =>
              /\ circuit_breaker'.failure_count = 0
              /\ circuit_breaker'.state = "closed"]_vars
    /\ [][(Finishing /\ call'.result
                 \notin (FailureResults \cup SuccessResults)) =>
              /\ circuit_breaker' = circuit_breaker
              /\ call'.posts = 0]_vars
    /\ [][(Finishing /\ call'.result \in {"unavailable", "circuit_open"}) =>
              circuit_breaker.state = "open"]_vars
    /\ [][(~Finishing /\ circuit_breaker' # circuit_breaker) =>
              /\ circuit_breaker.state = "open"
              /\ circuit_breaker' =
                     [circuit_breaker EXCEPT !.state = "half-open"]
              /\ gpc' = "chat"]_vars

\* A chat call of three failed attempts has opened the breaker at second 6,
\* after failures that only health probes can have recorded before; a health
\* probe made after the timeout has closed it.
C24_Witness ==
    /\ call.tool = "grok_health"
    /\ call.result = "healthy"
    /\ call.cbAtStart.state = "open"
    /\ call.cbAtStart.failure_count = failure_threshold
    /\ call.cbAtStart.last_failure_time = 6
    /\ circuit_breaker.state = "closed"
    /\ circuit_breaker.failure_count = 0

\* ---------------------------------------------------------------------------
\* C25: the completion budget is applied before sending: every outbound
\* GPT-5 request carries a completion-token cap equal to
\* calc_max_tokens(messages); no request is sent without it.
\* ---------------------------------------------------------------------------
C25_RequestCarriesCap ==
    (call.tool \in {"gpt5_chat", "gpt5_search_and_analyze"} /\ call.posts >= 1)
        => /\ outbound.keywords \cap CapKeywords # {}
           /\ outbound.cap = {calc_max_tokens(messages, env_limit)}

\* ---------------------------------------------------------------------------
\* C26: in every reachable state of the Grok proxy's breaker: state is closed
\* exactly when failure_count < failure_threshold; open or half-open implies
\* failure_count >= failure_threshold and a recorded last_failure_time;
\* half-open is entered only from open, never from closed, and open never
\* goes to closed without passing through half-open.
\* ---------------------------------------------------------------------------
\* The call made in this step found the breaker open with its timeout over,
\* so its can_execute moved it to half-open before anything was recorded.
ThroughHalfOpen ==
    /\ can_execute(circuit_breaker, now).ok
    /\ can_execute(circuit_breaker, now).cb.state = "half-open"

Gated == can_execute(call.cbAtStart, call.startedAt).cb

C27_OneOutcomePerCall ==
    /\ [](gpc = "chat" => (apiKey /\ circuit_breaker = Gated))
    /\ []((call.tool = "grok_chat" /\ call.done /\ call.posts >= 1) =>
              /\ apiKey
              /\ can_execute(call.cbAtStart, call.startedAt).ok
              /\ call.reply = "ok" =>
                     /\ circuit_breaker.failure_count = 0
                     /\ circuit_breaker.state = "closed"
                     /\ circuit_breaker.last_failure_time
                            = Gated.last_failure_time
              /\ call.reply # "ok" =>
                     /\ circuit_breaker.failure_count
                            = Gated.failure_count + 1
                     /\ circuit_breaker.last_failure_time = call.finishedAt)
    /\ []((call.tool = "grok_chat" /\ call.result = "unavailable") =>
              /\ call.posts = 0
              /\ ~can_execute(call.cbAtStart, call.startedAt).ok
              /\ circuit_breaker = call.cbAtStart)
    /\ [][(gpc = "chat" /\ gpc' = "chat") =>
              circuit_breaker' = circuit_breaker]_vars

\* Two attempts failed and the third succeeded on a breaker one failure short
\* of opening: the failed attempts recorded nothing, the call one success.
C27_Witness ==
    /\ call.tool = "grok_chat"
    /\ call.done
    /\ call.posts = 3
    /\ call.reply = "ok"
    /\ call.cbAtStart.state = "closed"
    /\ call.cbAtStart.failure_count = failure_threshold - 1
    /\ circuit_breaker.state = "closed"
    /\ circuit_breaker.failure_count = 0

\* ---------------------------------------------------------------------------
\* C28: sleep_until_complete reports completed once the target has exited,
\* also when its parent has not reaped it yet: an exited, unreaped (zombie)
\* target is not taken for a running one by the signal-0 probe.
\* ---------------------------------------------------------------------------
\* The target had exited before the call made its last probe.
ExitedBeforeLastProbe ==
    /\ wait.exited_at # NoTime
    /\ wait.exited_at < wait.start_time + wait.elapsed

C28_ZombieReportedCompleted ==
    (/\ wait.tool = "sleep_until_complete"
     /\ wait.done
     /\ wait.probes >= 1
     /\ ExitedBeforeLastProbe) => wait.status = "completed"

\* ---------------------------------------------------------------------------
\* C29: the snapshot of sleep_until_command_complete never holds the
\* server's own process, so a call whose other matched processes all exit
\* before the timeout ends with completed, not timeout, also when the
\* pattern is a substring of the server's own command line.
\* ---------------------------------------------------------------------------
\* The matched processes other than the server itself.
OtherMatched == wait.initial_pids \ {SelfPid}

C29_SelfNotInSnapshot ==
    /\ [](wait.tool = "sleep_until_command_complete" =>
              SelfPid \notin wait.initial_pids)
    /\ [][(/\ spc = "loop"
           /\ wait.tool = "sleep_until_command_complete"
           /\ wait'.done
           /\ \A pid \in OtherMatched : ~process_exists(pid))
              => wait'.status = "completed"]_vars

====
